---- MODULE Spec2Model ----
(***************************************************************************)
(* "Cows and Bulls": the game engine (src/src/game/mod.rs, struct Game)    *)
(* and the interactive loop that drives it (src/src/main.rs, fn main).     *)
(*                                                                         *)
(* A string is a sequence of one-character strings, <<"0","1","2","3">>.   *)
(* A digit array [u8; 4] is a sequence of 4 digits; position p of the      *)
(* source (0..3) is index p + 1 here.  hint_table[d][p + 1] is the         *)
(* source's hint_table[d][p].                                              *)
(***************************************************************************)
EXTENDS Integers, Sequences, FiniteSets, TLC

VARIABLES secret_number, tries, hint_table, pc, output, last, try_calls, analyze_calls,
          frames

vars ==
    <<secret_number, tries, hint_table, pc, output, last, try_calls, analyze_calls, frames>>

(***************************************************************************)
(* Program constants.                                                      *)
(***************************************************************************)
\* [u8; 4]: the number of positions of a secret and of a guess
NumPos == 4
\* [[Hint; 4]; 10]: the number of digit rows of the hint table
NumDigits == 10

Positions == 1 .. NumPos
Digits == 0 .. (NumDigits - 1)

\* enum Hint
Hint == {"Unknown", "Maybe", "Here", "NotHere"}

(***************************************************************************)
(* Bounds of the model.                                                    *)
(***************************************************************************)
\* scored guesses per game in the interactive loop
MaxTries == 2
\* try and analyze calls per game when the engine is called directly
MaxCalls == 2
\* calls of main() from main that have not returned
MaxRestarts == 1

(***************************************************************************)
(* Characters and parsing.                                                 *)
(***************************************************************************)
DigitChars == <<"0", "1", "2", "3", "4", "5", "6", "7", "8", "9">>

IsDigitChar(c) == c \in {"0", "1", "2", "3", "4", "5", "6", "7", "8", "9"}

\* x.to_string().parse::<u8>() on one character: the digit, or -1 for Err
\* (a sign alone, a blank and a letter are all Err)
parse_u8(c) ==
    CASE c = "0" -> 0 [] c = "1" -> 1 [] c = "2" -> 2 [] c = "3" -> 3 [] c = "4" -> 4
      [] c = "5" -> 5 [] c = "6" -> 6 [] c = "7" -> 7 [] c = "8" -> 8 [] c = "9" -> 9
      [] OTHER -> -1

\* the array that stands for a panic of from_string (an unwrap of Err or None)
Panic == <<>>

\* Game::from_string: every character is parsed (and unwrapped) while the
\* vector is collected, then the first four elements are fetched (and unwrapped)
from_string(value) ==
    IF \E k \in 1 .. Len(value) : parse_u8(value[k]) = -1
    THEN Panic
    ELSE IF Len(value) < NumPos
    THEN Panic
    ELSE <<parse_u8(value[1]), parse_u8(value[2]), parse_u8(value[3]), parse_u8(value[4])>>

\* str::trim on a line: leading and trailing blanks removed
RECURSIVE trim_start(_)
trim_start(s) == IF Len(s) > 0 /\ Head(s) = " " THEN trim_start(Tail(s)) ELSE s

RECURSIVE trim_end(_)
trim_end(s) ==
    IF Len(s) > 0 /\ s[Len(s)] = " " THEN trim_end(SubSeq(s, 1, Len(s) - 1)) ELSE s

trim(s) == trim_end(trim_start(s))

\* input.parse::<u32>() is Ok: an optional leading "+", then one or more
\* decimal digits (no line of the model is long enough to overflow a u32)
parse_u32(input) ==
    LET digits == IF Len(input) > 0 /\ Head(input) = "+" THEN Tail(input) ELSE input
    IN  /\ Len(digits) > 0
        /\ \A k \in 1 .. Len(digits) : IsDigitChar(digits[k])

(***************************************************************************)
(* The engine: impl Game.                                                  *)
(***************************************************************************)
\* [[Hint::Unknown; 4]; 10]
UnknownTable == [d \in Digits |-> [p \in Positions |-> "Unknown"]]

\* the array [0, 1, ..., 9] that generate_secret shuffles
array == [k \in 1 .. NumDigits |-> k - 1]

\* a mutant of generate_secret: the last element returned is array[2] again
generate_secret_repeat ==
    { [i \in Positions |-> array[sigma[IF i = NumPos THEN NumPos - 1 ELSE i]]] :
        sigma \in { f \in [Positions -> 1 .. NumDigits] :
                      \A i, j \in Positions : i # j => f[i] # f[j] } }

\* Game::generate_secret: every outcome of rng.shuffle(&mut array) followed by
\* [array[0], array[1], array[2], array[3]].  A shuffle permutes the array, so
\* the four cells returned hold the elements of four different cells (sigma) of
\* the array as it was
generate_secret ==
    { [i \in Positions |-> array[sigma[i]]] :
        sigma \in { f \in [Positions -> 1 .. NumDigits] :
                      \A i, j \in Positions : i # j => f[i] # f[j] } }

\* a mutant of guess_loop: the loop stops one position early
guess_loop_short(secret, input) ==
    \A i \in 1 .. (NumPos - 1) : secret[i] = input[i]

\* the loop of Game::guess: false at the first position that differs, true
\* when there is none
guess_loop(secret, input) ==
    ~ \E i \in Positions : secret[i] # input[i]

\* Game::guess
guess(secret, variant) == guess_loop(secret, from_string(variant))

\* a mutant of try_inner: the `i != j` test is missing
RECURSIVE try_inner_all(_, _, _, _, _)
try_inner_all(secret, input, i, j, cows) ==
    IF j > NumPos THEN cows
    ELSE try_inner_all(secret, input, i, j + 1,
                       IF secret[i] = input[j] THEN cows + 1 ELSE cows)

\* the inner loop of Game::try, `for j in 0..4`, from j on
RECURSIVE try_inner(_, _, _, _, _)
try_inner(secret, input, i, j, cows) ==
    IF j > NumPos THEN cows
    ELSE try_inner(secret, input, i, j + 1,
                   IF i # j /\ secret[i] = input[j] THEN cows + 1 ELSE cows)

\* the outer loop of Game::try, `for i in 0..4`, from i on
RECURSIVE try_loop(_, _, _, _, _)
try_loop(secret, input, i, cows, bulls) ==
    IF i > NumPos THEN [cows |-> cows, bulls |-> bulls]
    ELSE try_loop(secret, input, i + 1,
                  try_inner(secret, input, i, 1, cows),
                  IF secret[i] = input[i] THEN bulls + 1 ELSE bulls)

\* a mutant of try_counted: the try is not registered
try_uncounted(r, count) ==
    [cows |-> r.cows, bulls |-> r.bulls, tries |-> count]

\* the end of Game::try: `self.tries += 1; (cows, bulls)`
try_counted(r, count) ==
    [cows |-> r.cows, bulls |-> r.bulls, tries |-> count + 1]

\* Game::try: the (cows, bulls) tuple and the new value of self.tries
try(secret, count, variant) ==
    try_counted(try_loop(secret, from_string(variant), 1, 0, 0), count)

\* a mutant of unique_loop: the inner loop starts at i + 2
unique_loop_skip(input) ==
    ~ \E i \in Positions : \E j \in (i + 2) .. NumPos : input[i] = input[j]

\* the loops of Game::check_unique_digits: false at the first pair i < j that
\* is equal, true when there is none
unique_loop(input) ==
    ~ \E i \in Positions : \E j \in (i + 1) .. NumPos : input[i] = input[j]

\* a mutant of check_unique_digits: every string of digits is found unique
check_unique_digits_any(variant) == from_string(variant) # Panic

\* Game::check_unique_digits
check_unique_digits(variant) == unique_loop(from_string(variant))

InInput(input, d) == \E k \in Positions : input[k] = d

\* a mutant of analyze_absent: the position loop stops one position early
analyze_absent_short(t, input, cows, bulls) ==
    IF cows = 0 /\ bulls = 0
    THEN [d \in Digits |->
            IF InInput(input, d)
            THEN [j \in Positions |-> IF j < NumPos THEN "NotHere" ELSE t[d][j]]
            ELSE t[d]]
    ELSE t

\* Game::analyze, first case: no cows and no bulls
analyze_absent(t, input, cows, bulls) ==
    IF cows = 0 /\ bulls = 0
    THEN [d \in Digits |->
            IF InInput(input, d) THEN [j \in Positions |-> "NotHere"] ELSE t[d]]
    ELSE t

\* a mutant of analyze_present: the test is `cows + bulls >= 3`
analyze_present_early(t, input, cows, bulls) ==
    IF cows + bulls >= 3
    THEN [i \in Digits |->
            IF ~ InInput(input, i) THEN [j \in Positions |-> "NotHere"] ELSE t[i]]
    ELSE t

\* a mutant of analyze_present: the digit loop stops one digit early, `0..9`
analyze_present_short(t, input, cows, bulls) ==
    IF cows + bulls = 4
    THEN [i \in Digits |->
            IF ~ InInput(input, i) /\ i < NumDigits - 1
            THEN [j \in Positions |-> "NotHere"] ELSE t[i]]
    ELSE t

\* Game::analyze, second case: cows + bulls == 4
analyze_present(t, input, cows, bulls) ==
    IF cows + bulls = 4
    THEN [i \in Digits |->
            IF ~ InInput(input, i) THEN [j \in Positions |-> "NotHere"] ELSE t[i]]
    ELSE t

\* a mutant of analyze_maybe: the cell is assigned Hint::Here
analyze_maybe_here(t, input, cows, bulls) ==
    IF bulls > 0
    THEN [d \in Digits |-> [i \in Positions |->
            IF input[i] = d /\ t[d][i] = "Unknown" THEN "Here" ELSE t[d][i]]]
    ELSE t

\* a mutant of analyze_maybe: the cell is not tested for Hint::Unknown
analyze_maybe_always(t, input, cows, bulls) ==
    IF bulls > 0
    THEN [d \in Digits |-> [i \in Positions |->
            IF input[i] = d THEN "Maybe" ELSE t[d][i]]]
    ELSE t

\* Game::analyze, third case: some bulls
analyze_maybe(t, input, cows, bulls) ==
    IF bulls > 0
    THEN [d \in Digits |-> [i \in Positions |->
            IF input[i] = d /\ t[d][i] = "Unknown" THEN "Maybe" ELSE t[d][i]]]
    ELSE t

\* the count c of Game::analyze: the cells of the guess that are Hint::NotHere
not_here_count(t, input) ==
    Cardinality({i \in Positions : t[input[i]][i] = "NotHere"})

\* a mutant of analyze_bulls: the cells that are not Hint::NotHere are
\* assigned Hint::Here
analyze_bulls_here(t, input, cows, bulls) ==
    IF cows = 0 /\ bulls > 0 /\ not_here_count(t, input) + bulls = 4
    THEN [d \in Digits |-> [i \in Positions |->
            IF input[i] = d /\ t[d][i] # "NotHere" THEN "Here" ELSE t[d][i]]]
    ELSE t

\* Game::analyze, fourth case: only bulls.  The statement of line 224,
\* `self.hint_table[v][i] == Hint::Here;`, is a comparison whose value is
\* dropped: no cell is assigned
analyze_bulls(t, input, cows, bulls) ==
    IF cows = 0 /\ bulls > 0
    THEN IF not_here_count(t, input) + bulls = 4
         THEN LET dropped == [i \in Positions |->
                                IF t[input[i]][i] = "Unknown"
                                THEN t[input[i]][i] = "Here" ELSE FALSE]
              IN  t
         ELSE t
    ELSE t

\* a mutant of analyze_cows: the `== Hint::Maybe` test is missing
analyze_cows_unknown(t, input, cows, bulls) ==
    IF ~ (cows = 0 /\ bulls > 0) /\ (cows > 0 /\ bulls = 0)
    THEN [d \in Digits |-> [i \in Positions |->
            IF input[i] = d /\ t[d][i] = "Unknown" THEN "NotHere" ELSE t[d][i]]]
    ELSE t

\* a mutant of analyze_cows: the `bulls == 0` test is missing
analyze_cows_any(t, input, cows, bulls) ==
    IF ~ (cows = 0 /\ bulls > 0) /\ cows > 0
    THEN [d \in Digits |-> [i \in Positions |->
            IF input[i] = d /\ t[d][i] \in {"Maybe", "Unknown"}
            THEN "NotHere" ELSE t[d][i]]]
    ELSE t

\* Game::analyze, last case (the else branch of the fourth): only cows
analyze_cows(t, input, cows, bulls) ==
    IF ~ (cows = 0 /\ bulls > 0) /\ (cows > 0 /\ bulls = 0)
    THEN [d \in Digits |-> [i \in Positions |->
            IF input[i] = d /\ t[d][i] \in {"Maybe", "Unknown"}
            THEN "NotHere" ELSE t[d][i]]]
    ELSE t

\* the cases of Game::analyze in the order of the source, each reading the
\* table the cases before it left
analyze_cases(t, input, cows, bulls) ==
    analyze_cows(
        analyze_bulls(
            analyze_maybe(
                analyze_present(
                    analyze_absent(t, input, cows, bulls),
                    input, cows, bulls),
                input, cows, bulls),
            input, cows, bulls),
        input, cows, bulls)

\* Game::analyze
analyze(t, variant, cows, bulls) == analyze_cases(t, from_string(variant), cows, bulls)

\* Game::new
new(secret) == [secret_number |-> secret, tries |-> 0, hint_table |-> UnknownTable]

\* a mutant of win_report: the tries are printed as they are
win_report_plain(count) == count

\* the number main prints when the secret is guessed: `the_game.tries + 1`
win_report(count) == count + 1

\* print_hint: the symbol printed for each cell
print_hint(table) ==
    [i \in Digits |-> [j \in Positions |->
        CASE table[i][j] = "Unknown" -> " "
          [] table[i][j] = "Maybe" -> "?"
          [] table[i][j] = "Here" -> "+"
          [] table[i][j] = "NotHere" -> "-"]]

(***************************************************************************)
(* The inputs of the model.                                                *)
(***************************************************************************)
\* the digits a guess of the model is made of
GuessDigits == 0 .. 3

\* every string of four different digits of GuessDigits
GuessLines ==
    { [i \in Positions |-> DigitChars[f[i] + 1]] :
        f \in { g \in [Positions -> GuessDigits] :
                  \A i, j \in Positions : i # j => g[i] # g[j] } }

\* four-digit strings with a repeated digit
RepeatLines ==
    { <<"1", "1", "2", "3">>, <<"0", "1", "0", "1">>, <<"2", "2", "2", "2">> }

\* lines that are no four-digit string, and one guess typed with blanks
OtherLines ==
    { <<"1", "2">>, <<"1", "2", "3", "4", "5">>, <<"+", "1", "2", "3">>,
      <<"+", "1", "2">>, <<"-", "1", "2", "3">>, <<"1", "+", "2", "3">>,
      <<"+", "1", "2", "3", "4">>, <<" ", "0", "1", "2", "3", " ">> }

\* the commands of the loop, and a word that is none
CommandLines ==
    { <<>>, <<"q">>, <<"q", "u", "i", "t">>, <<"e", "x", "i", "t">>,
      <<"h">>, <<"h", "e", "l", "p">>, <<"?">>,
      <<"s">>, <<"s", "t", "a", "t", "s">>,
      <<"r">>, <<"r", "e", "s", "t", "a", "r", "t">>, <<"x">> }

\* the lines read from stdin
Lines == GuessLines \cup RepeatLines \cup OtherLines \cup CommandLines

\* the lines as the match of main sees them: `let input = input.trim();`
Inputs == { trim(line) : line \in Lines }

\* the inputs of the arms `Ok(_)` and of the arms `Err(_)` of
\* `match input.parse::<u32>()`
OkInputs == { input \in Inputs : parse_u32(input) }
ErrInputs == { input \in Inputs : ~ parse_u32(input) }

\* the strings handed to guess, try and check_unique_digits when the engine
\* is called directly
EngineLines == GuessLines \cup RepeatLines

\* the strings handed to analyze when the engine is called directly
AnalyzeLines ==
    { <<"0", "1", "2", "3">>, <<"1", "0", "3", "2">>, <<"0", "2", "1", "3">>,
      <<"3", "2", "1", "0">>, <<"0", "1", "0", "1">>, <<"2", "2", "2", "2">> }

\* the cows and the bulls handed to analyze when the engine is called directly
Scores == 0 .. NumPos

\* the secrets the games of the model start from: the outcomes of
\* generate_secret that are a run of consecutive digits
SecretPool ==
    { s \in generate_secret :
        s[1] \in 0 .. 4 /\ \A i \in 1 .. (NumPos - 1) : s[i + 1] = s[i] + 1 }

(***************************************************************************)
(* State.                                                                  *)
(*   secret_number, tries, hint_table   the fields of the_game             *)
(*   pc         "loop": at the top of the loop of main (or between two      *)
(*              direct calls); "done": a line was handled (a call           *)
(*              returned); "exit": main returned; "panic": the process      *)
(*              panicked                                                    *)
(*   output     what the last line handled printed                          *)
(*   last       the engine calls of the last line handled: the methods      *)
(*              called, the string they were given, the cows and bulls      *)
(*              counted or passed, the value of guess or                    *)
(*              check_unique_digits, the hint table before                  *)
(*   try_calls, analyze_calls   the calls of try and of analyze on this     *)
(*              game                                                        *)
(*   frames     the games of the calls of main that wait for a call of      *)
(*              main() to return, the oldest first (recorded by             *)
(*              RestartCall only)                                           *)
(***************************************************************************)
NoCall ==
    [ops |-> <<>>, input |-> <<>>, cows |-> 0, bulls |-> 0, ret |-> FALSE,
     before |-> UnknownTable]

Called(op) == \E k \in 1 .. Len(last.ops) : last.ops[k] = op

\* a mutant of StartGame: the hint table of the game before is kept
StartGameCarry(s) ==
    /\ secret_number' = new(s).secret_number
    /\ tries' = new(s).tries
    /\ hint_table' = hint_table
    /\ try_calls' = 0
    /\ analyze_calls' = 0

StartGame(s) ==
    /\ secret_number' = new(s).secret_number
    /\ tries' = new(s).tries
    /\ hint_table' = new(s).hint_table
    /\ try_calls' = 0
    /\ analyze_calls' = 0

Init ==
    /\ \E s \in SecretPool :
         /\ secret_number = new(s).secret_number
         /\ tries = new(s).tries
         /\ hint_table = new(s).hint_table
    /\ pc = "loop"
    /\ output = <<>>
    /\ last = NoCall
    /\ try_calls = 0
    /\ analyze_calls = 0
    /\ frames = <<>>

game == <<secret_number, tries, hint_table, try_calls, analyze_calls>>

(***************************************************************************)
(* The loop of main: one action per arm of the match.                      *)
(***************************************************************************)
\* Ok(_) if input.len() != 4
WrongLength ==
    /\ pc = "loop"
    /\ \E input \in OkInputs :
         /\ Len(input) # 4
         /\ output' = <<"Number of four digits is needed">>
         /\ last' = [NoCall EXCEPT !.input = input]
         /\ pc' = "done"
         /\ UNCHANGED <<game, frames>>

\* Ok(_) if !the_game.check_unique_digits(input): from_string panics
ParsePanic ==
    /\ pc = "loop"
    /\ \E input \in OkInputs :
         /\ Len(input) = 4
         /\ from_string(input) = Panic
         /\ output' = <<"panicked">>
         /\ last' = [NoCall EXCEPT !.input = input, !.ops = <<"check_unique_digits">>,
                                   !.before = hint_table]
         /\ pc' = "panic"
         /\ UNCHANGED <<game, frames>>

\* Ok(_) if !the_game.check_unique_digits(input)
NotUnique ==
    /\ pc = "loop"
    /\ \E input \in OkInputs :
         /\ Len(input) = 4
         /\ from_string(input) # Panic
         /\ ~ check_unique_digits(input)
         /\ output' = <<"Digits must be unique">>
         /\ last' = [NoCall EXCEPT !.input = input, !.ops = <<"check_unique_digits">>,
                                   !.ret = FALSE, !.before = hint_table]
         /\ pc' = "done"
         /\ UNCHANGED <<game, frames>>

\* Ok(_) if the_game.guess(input)
Won ==
    /\ pc = "loop"
    /\ \E input \in OkInputs :
         /\ Len(input) = 4
         /\ from_string(input) # Panic
         /\ check_unique_digits(input)
         /\ guess(secret_number, input)
         /\ output' = <<"You won in tries", win_report(tries)>>
         /\ last' = [NoCall EXCEPT !.input = input,
                                   !.ops = <<"check_unique_digits", "guess">>,
                                   !.ret = TRUE, !.before = hint_table]
         /\ pc' = "exit"
         /\ UNCHANGED <<game, frames>>

\* Ok(_): the guess is scored and analyzed
Scored ==
    /\ pc = "loop"
    /\ \E input \in OkInputs :
         /\ Len(input) = 4
         /\ from_string(input) # Panic
         /\ check_unique_digits(input)
         /\ ~ guess(secret_number, input)
         /\ tries < MaxTries
         /\ LET r == try(secret_number, tries, input)
            IN  /\ tries' = r.tries
                /\ hint_table' = analyze(hint_table, input, r.cows, r.bulls)
                /\ output' = IF r.cows = 0 /\ r.bulls = 0
                             THEN <<"Nothing found">>
                             ELSE <<"Found cows and bulls", r.cows, r.bulls>>
                /\ last' = [ops |-> <<"check_unique_digits", "guess", "try", "analyze">>,
                            input |-> input, cows |-> r.cows, bulls |-> r.bulls,
                            ret |-> FALSE, before |-> hint_table]
         /\ try_calls' = try_calls + 1
         /\ analyze_calls' = analyze_calls + 1
         /\ pc' = "done"
         /\ UNCHANGED <<secret_number, frames>>

\* Err(_), "": continue
Empty ==
    /\ pc = "loop"
    /\ \E input \in ErrInputs :
         /\ input = <<>>
         /\ output' = <<>>
         /\ last' = NoCall
         /\ pc' = "done"
         /\ UNCHANGED <<game, frames>>

\* Err(_), "q" | "quit" | "exit": break
Quit ==
    /\ pc = "loop"
    /\ \E input \in ErrInputs :
         /\ input \in { <<"q">>, <<"q", "u", "i", "t">>, <<"e", "x", "i", "t">> }
         /\ output' = <<>>
         /\ last' = [NoCall EXCEPT !.input = input]
         /\ pc' = "exit"
         /\ UNCHANGED <<game, frames>>

\* Err(_), "h" | "help" | "?": print_help()
Help ==
    /\ pc = "loop"
    /\ \E input \in ErrInputs :
         /\ input \in { <<"h">>, <<"h", "e", "l", "p">>, <<"?">> }
         /\ output' = <<"help">>
         /\ last' = [NoCall EXCEPT !.input = input]
         /\ pc' = "done"
         /\ UNCHANGED <<game, frames>>

\* Err(_), "s" | "stats": print_hint(the_game.hint_table)
Stats ==
    /\ pc = "loop"
    /\ \E input \in ErrInputs :
         /\ input \in { <<"s">>, <<"s", "t", "a", "t", "s">> }
         /\ output' = <<"hints", print_hint(hint_table)>>
         /\ last' = [NoCall EXCEPT !.input = input]
         /\ pc' = "done"
         /\ UNCHANGED <<game, frames>>

\* Err(_), "r" | "restart": main() is called; it makes a new game, prints the
\* invitation and runs its own loop
RestartArm ==
    /\ pc = "loop"
    /\ \E input \in ErrInputs :
         /\ input \in { <<"r">>, <<"r", "e", "s", "t", "a", "r", "t">> }
         /\ \E s \in SecretPool : StartGame(s)
         /\ output' = <<"Guess the number!">>
         /\ last' = [NoCall EXCEPT !.input = input]
         /\ pc' = "done"

\* the restart arm as the running main sees it: the frames that wait below
\* it are not recorded (when the running main returns they only break, see
\* Return)
Restart ==
    /\ RestartArm
    /\ UNCHANGED frames

\* the_game of the frame that calls main(): it stays in that frame
Frame ==
    [secret_number |-> secret_number, tries |-> tries, hint_table |-> hint_table,
     try_calls |-> try_calls, analyze_calls |-> analyze_calls]

\* the restart arm with the calling frame recorded
RestartCall ==
    /\ Len(frames) < MaxRestarts
    /\ frames' = Append(frames, Frame)
    /\ RestartArm

\* the main() called by the restart arm has returned (its loop broke on a won
\* game or on a quit command): the_game in scope is the one of the calling
\* frame again, and the next statement is `break`
Return ==
    /\ pc = "exit"
    /\ frames # <<>>
    /\ LET caller == frames[Len(frames)]
       IN  /\ secret_number' = caller.secret_number
           /\ tries' = caller.tries
           /\ hint_table' = caller.hint_table
           /\ try_calls' = caller.try_calls
           /\ analyze_calls' = caller.analyze_calls
    /\ frames' = SubSeq(frames, 1, Len(frames) - 1)
    /\ output' = <<>>
    /\ last' = NoCall
    /\ pc' = "exit"

\* Err(_), any other line
Unknown ==
    /\ pc = "loop"
    /\ \E input \in ErrInputs :
         /\ input \notin { <<>>, <<"q">>, <<"q", "u", "i", "t">>, <<"e", "x", "i", "t">>,
                           <<"h">>, <<"h", "e", "l", "p">>, <<"?">>,
                           <<"s">>, <<"s", "t", "a", "t", "s">>,
                           <<"r">>, <<"r", "e", "s", "t", "a", "r", "t">> }
         /\ output' = <<"Unknown command", input>>
         /\ last' = [NoCall EXCEPT !.input = input]
         /\ pc' = "done"
         /\ UNCHANGED <<game, frames>>

\* the top of the loop: a new, empty input
NextLine ==
    /\ pc = "done"
    /\ pc' = "loop"
    /\ output' = <<>>
    /\ last' = NoCall
    /\ UNCHANGED <<game, frames>>

Next ==
    \/ WrongLength
    \/ ParsePanic
    \/ NotUnique
    \/ Won
    \/ Scored
    \/ Empty
    \/ Quit
    \/ Help
    \/ Stats
    \/ Restart
    \/ Unknown
    \/ NextLine

Spec == Init /\ [][Next]_vars

(***************************************************************************)
(* The loop of main with the frames of main recorded, on a few lines and   *)
(* two secrets.                                                            *)
(***************************************************************************)
\* the lines typed: one for every arm, two of them guesses
RestartInputs ==
    { <<"1", "2">>, <<"+", "1", "2", "3">>, <<"1", "1", "2", "3">>,
      <<"0", "1", "2", "3">>, <<"1", "2", "3", "0">>,
      <<>>, <<"q">>, <<"h">>, <<"s">>, <<"r">>, <<"x">> }

\* the secrets generated
RestartSecrets == { <<0, 1, 2, 3>>, <<1, 2, 3, 4>> }

InitRestart ==
    /\ Init
    /\ secret_number \in RestartSecrets

NextRestart ==
    \/ WrongLength /\ last'.input \in RestartInputs
    \/ ParsePanic /\ last'.input \in RestartInputs
    \/ NotUnique /\ last'.input \in RestartInputs
    \/ Won /\ last'.input \in RestartInputs
    \/ Scored /\ last'.input \in RestartInputs
    \/ Empty
    \/ Quit /\ last'.input \in RestartInputs
    \/ Help /\ last'.input \in RestartInputs
    \/ Stats /\ last'.input \in RestartInputs
    \/ RestartCall /\ last'.input \in RestartInputs /\ secret_number' \in RestartSecrets
    \/ Unknown /\ last'.input \in RestartInputs
    \/ NextLine
    \/ Return

SpecRestart == InitRestart /\ [][NextRestart]_vars

(***************************************************************************)
(* The engine called directly: any method, any well-formed string, any     *)
(* cows and bulls.                                                         *)
(***************************************************************************)
EngGuess(variant) ==
    /\ pc = "loop"
    /\ last' = [NoCall EXCEPT !.ops = <<"guess">>, !.input = variant,
                              !.ret = guess(secret_number, variant),
                              !.before = hint_table]
    /\ pc' = "done"
    /\ UNCHANGED <<game, output, frames>>

EngTry(variant) ==
    /\ pc = "loop"
    /\ try_calls + analyze_calls < MaxCalls
    /\ LET r == try(secret_number, tries, variant)
       IN  /\ tries' = r.tries
           /\ last' = [NoCall EXCEPT !.ops = <<"try">>, !.input = variant,
                                     !.cows = r.cows, !.bulls = r.bulls,
                                     !.before = hint_table]
    /\ try_calls' = try_calls + 1
    /\ pc' = "done"
    /\ UNCHANGED <<secret_number, hint_table, analyze_calls, output, frames>>

EngAnalyze(variant, cows, bulls) ==
    /\ pc = "loop"
    /\ try_calls + analyze_calls < MaxCalls
    /\ hint_table' = analyze(hint_table, variant, cows, bulls)
    /\ last' = [NoCall EXCEPT !.ops = <<"analyze">>, !.input = variant,
                              !.cows = cows, !.bulls = bulls,
                              !.before = hint_table]
    /\ analyze_calls' = analyze_calls + 1
    /\ pc' = "done"
    /\ UNCHANGED <<secret_number, tries, try_calls, output, frames>>

EngCheckUnique(variant) ==
    /\ pc = "loop"
    /\ last' = [NoCall EXCEPT !.ops = <<"check_unique_digits">>, !.input = variant,
                              !.ret = check_unique_digits(variant),
                              !.before = hint_table]
    /\ pc' = "done"
    /\ UNCHANGED <<game, output, frames>>

EngReturn ==
    /\ pc = "done"
    /\ pc' = "loop"
    /\ last' = NoCall
    /\ UNCHANGED <<game, output, frames>>

NextEngine ==
    \/ \E variant \in EngineLines : EngGuess(variant)
    \/ \E variant \in EngineLines : EngTry(variant)
    \/ \E variant \in AnalyzeLines : \E cows, bulls \in Scores :
         EngAnalyze(variant, cows, bulls)
    \/ \E variant \in EngineLines : EngCheckUnique(variant)
    \/ EngReturn

SpecEngine == Init /\ [][NextEngine]_vars

(***************************************************************************)
(* The generator: a new game on every outcome of generate_secret, and the  *)
(* engine called on it.                                                    *)
(***************************************************************************)
\* the string and the cows and bulls handed to the engine of such a game
GenLines == { <<"0", "1", "2", "3">> }
GenScores == 0 .. 1

InitGen ==
    /\ \E s \in generate_secret :
         /\ secret_number = new(s).secret_number
         /\ tries = new(s).tries
         /\ hint_table = new(s).hint_table
    /\ pc = "loop"
    /\ output = <<>>
    /\ last = NoCall
    /\ try_calls = 0
    /\ analyze_calls = 0
    /\ frames = <<>>

NextGen ==
    \/ \E variant \in GenLines : EngGuess(variant)
    \/ \E variant \in GenLines : EngTry(variant)
    \/ \E variant \in GenLines : \E cows, bulls \in GenScores :
         EngAnalyze(variant, cows, bulls)
    \/ \E variant \in GenLines : EngCheckUnique(variant)
    \/ EngReturn

SpecGen == InitGen /\ [][NextGen]_vars

(***************************************************************************)
(* analyze as a function of the hint table: hint_table is a public field   *)
(* of Game, so analyze can be handed any table.  One call of try or of     *)
(* analyze on the game of secret 6437, from every table of AnyTables.      *)
(***************************************************************************)
\* the strings handed to try and to analyze
AnyLines == { <<"6", "4", "3", "9">>, <<"0", "1", "2", "3">>, <<"4", "4", "9", "6">> }

\* the tables: any four values in the four cells hint_table[line[p]][p] of a
\* line of AnyLines, Hint::Unknown in the other cells
AnyTables ==
    { [d \in Digits |-> [p \in Positions |->
          IF from_string(line)[p] = d THEN f[p] ELSE "Unknown"]] :
        line \in AnyLines, f \in [Positions -> Hint] }

\* a game that has been used before (its table is any of AnyTables) and on
\* which one more call is made
InitAnalyze ==
    /\ secret_number = <<6, 4, 3, 7>>
    /\ tries = 0
    /\ hint_table \in AnyTables
    /\ pc = "loop"
    /\ output = <<>>
    /\ last = NoCall
    /\ try_calls = 0
    /\ analyze_calls = MaxCalls - 1
    /\ frames = <<>>

NextAnalyze ==
    \/ \E variant \in AnyLines : EngTry(variant)
    \/ \E variant \in AnyLines : \E cows, bulls \in Scores :
         EngAnalyze(variant, cows, bulls)
    \/ EngReturn

SpecAnalyze == InitAnalyze /\ [][NextAnalyze]_vars

(***************************************************************************)
(* The claims.                                                             *)
(***************************************************************************)
\* the digits of the string of the last call
LastGuess == from_string(last.input)

Distinct(a) == \A i, j \in Positions : i # j => a[i] # a[j]

\* exactly four characters, each a decimal numeral
WellFormed(str) == Len(str) = 4 /\ \A k \in 1 .. Len(str) : IsDigitChar(str[k])

Rank(h) == CASE h = "Unknown" -> 0 [] h = "Maybe" -> 1 [] OTHER -> 2

\* C1: for a secret and a guess of four pairwise different digits each, try
\* returns as bulls the number of positions where the two agree, as cows the
\* number of ordered pairs of different positions (i, j) with
\* secret[i] = guess[j], and bulls + cows <= 4.
C1_ScoreCounts ==
    (Called("try") /\ Distinct(secret_number) /\ Distinct(LastGuess)) =>
        /\ last.bulls =
             Cardinality({i \in Positions : secret_number[i] = LastGuess[i]})
        /\ last.cows =
             Cardinality({ij \in Positions \X Positions :
                            ij[1] # ij[2] /\ secret_number[ij[1]] = LastGuess[ij[2]]})
        /\ last.bulls + last.cows <= 4

\* a try that counted cows and bulls at once
C1_Witness ==
    /\ Called("try")
    /\ Distinct(secret_number)
    /\ Distinct(LastGuess)
    /\ last.cows = 2
    /\ last.bulls = 1

\* C2: in the loop of main, where every guess analyzed has four different
\* digits and the score try returned for it, no cell hint_table[secret[p]][p]
\* is NotHere, and no digit of the secret has all its four cells NotHere.
C2_HintsSound ==
    /\ \A p \in Positions : hint_table[secret_number[p]][p] # "NotHere"
    /\ \A p \in Positions :
         \E q \in Positions : hint_table[secret_number[p]][q] # "NotHere"

\* the second guess of a game: the only-cows case has overwritten a Maybe in
\* the row of a digit of the secret
C2_Witness ==
    /\ Called("analyze")
    /\ tries = 2
    /\ last.cows > 0
    /\ last.bulls = 0
    /\ \E p, q \in Positions :
         /\ last.before[secret_number[p]][q] = "Maybe"
         /\ hint_table[secret_number[p]][q] = "NotHere"

\* C3: in the loop of main no engine method is called on a line that is not
\* four decimal numerals, so from_string never panics.
C3_EngineSeesWellFormed ==
    /\ last.ops # <<>> => WellFormed(last.input)
    /\ pc # "panic"

\* C4: when analyze is called with cows = 0 and bulls > 0 and the number c of
\* cells hint_table[guess[i]][i] that are NotHere makes c + bulls = 4, every
\* cell hint_table[guess[i]][i] that was Unknown before the call is Here when
\* the call returns.
C4_BullsResolved ==
    ( /\ Called("analyze")
      /\ last.cows = 0
      /\ last.bulls > 0
      /\ not_here_count(last.before, LastGuess) + last.bulls = 4 ) =>
        \A i \in Positions :
            last.before[LastGuess[i]][i] = "Unknown" =>
                hint_table[LastGuess[i]][i] = "Here"

\* C5: no call of analyze, whatever the guess and the score, moves a cell to a
\* less certain value (Unknown < Maybe < Here, NotHere).
C5_HintsMonotonic ==
    Called("analyze") =>
        \A d \in Digits : \A p \in Positions :
            Rank(hint_table[d][p]) >= Rank(last.before[d][p])

\* an analyze that met a cell it had made Maybe or NotHere before, and made a
\* Maybe cell NotHere
C5_Witness ==
    /\ Called("analyze")
    /\ analyze_calls = 2
    /\ \E d \in Digits : \E p \in Positions :
         last.before[d][p] = "Maybe" /\ hint_table[d][p] = "NotHere"
    /\ \E d \in Digits : \E p \in Positions :
         /\ last.before[d][p] = "NotHere"
         /\ LastGuess[p] = d
         /\ last.bulls > 0

\* C6: tries is 0 in a new game and is always the number of calls of try on
\* the game: guess, check_unique_digits and analyze leave it alone.
C6_TriesCountTry == tries = try_calls

\* a game tried once, after an analyze that followed the try
C6_Witness ==
    /\ Called("analyze")
    /\ try_calls = 1
    /\ analyze_calls = 1
    /\ tries = 1

\* C7: try on the secret itself returns 0 cows and 4 bulls, and guess is true
\* exactly of the strings whose four digits are the secret's.
C7_SecretRecognized ==
    /\ Called("guess") => (last.ret <=> LastGuess = secret_number)
    /\ (Called("try") /\ LastGuess = secret_number) =>
         (last.cows = 0 /\ last.bulls = 4)

\* try was called on the secret itself
C7_Witness ==
    /\ Called("try")
    /\ LastGuess = secret_number
    /\ Distinct(secret_number)

\* C8: check_unique_digits is true exactly of the strings whose four digits
\* are pairwise different.
C8_UniqueDigits ==
    last.ops = <<"check_unique_digits">> =>
        (last.ret <=> Cardinality({LastGuess[i] : i \in Positions}) = NumPos)

\* check_unique_digits has refused a string whose first two digits are equal
C8_Witness ==
    /\ last.ops = <<"check_unique_digits">>
    /\ LastGuess[1] = LastGuess[2]
    /\ ~ last.ret

SecretOk ==
    /\ DOMAIN secret_number = Positions
    /\ \A i \in Positions : secret_number[i] \in Digits
    /\ Distinct(secret_number)

\* C9: every secret generate_secret produces is four pairwise different digits
\* of 0..9, and no engine method changes the secret of a game.
C9_SecretDistinctAndFixed ==
    /\ [] SecretOk
    /\ [][secret_number' = secret_number]_vars

\* a game whose secret begins with 9 and ends with 0, tried and analyzed
C9_Witness ==
    /\ secret_number[1] = 9
    /\ secret_number[NumPos] = 0
    /\ Called("analyze")
    /\ tries = 1

\* C10: when analyze is called with cows = 0 and bulls = 0, every cell of the
\* row of every digit of the guess is NotHere when the call returns.
C10_AllAbsent ==
    (Called("analyze") /\ last.cows = 0 /\ last.bulls = 0) =>
        \A i, p \in Positions : hint_table[LastGuess[i]][p] = "NotHere"

\* such a call on a table that held a Maybe in a row of the guess
C10_Witness ==
    /\ Called("analyze")
    /\ last.cows = 0
    /\ last.bulls = 0
    /\ \E i, p \in Positions : last.before[LastGuess[i]][p] = "Maybe"

\* C11: when analyze is called with cows + bulls = 4, every cell of the row of
\* every digit that does not occur in the guess is NotHere when the call
\* returns.
C11_AllPresent ==
    (Called("analyze") /\ last.cows + last.bulls = 4) =>
        \A d \in Digits :
            (\A i \in Positions : LastGuess[i] # d) =>
                \A p \in Positions : hint_table[d][p] = "NotHere"

\* such a call with cows and bulls both, on a guess of four different digits,
\* that found the row of digit 9 not yet NotHere
C11_Witness ==
    /\ Called("analyze")
    /\ last.cows = 1
    /\ last.bulls = 3
    /\ Distinct(LastGuess)
    /\ \E p \in Positions : last.before[9][p] # "NotHere"
    /\ \A p \in Positions : hint_table[9][p] = "NotHere"

\* the lines the loop of main refuses: a number that is not four characters
\* long, four numerals with a repeated one, and a word that is no number and
\* neither a quit nor a restart command (help, stats, the empty line and the
\* unknown words)
RejectedLine(input) ==
    \/ input \in OkInputs /\ Len(input) # 4
    \/ WellFormed(input) /\ ~ Distinct(from_string(input))
    \/ /\ input \in ErrInputs
       /\ input \notin { <<"q">>, <<"q", "u", "i", "t">>, <<"e", "x", "i", "t">>,
                         <<"r">>, <<"r", "e", "s", "t", "a", "r", "t">> }

\* C12: in the loop of main, handling a refused line (wrong length, repeated
\* digits, help, stats, an unknown word) calls neither try nor analyze and
\* leaves tries, the hint table and the secret as they were; no string with a
\* repeated digit is ever handed to try or to analyze.
C12_RejectedUnchanged ==
    /\ [] ((Called("try") \/ Called("analyze")) => Distinct(LastGuess))
    /\ [][ (pc = "loop" /\ RejectedLine(last'.input)) =>
             /\ tries' = tries
             /\ hint_table' = hint_table
             /\ secret_number' = secret_number
             /\ \A k \in 1 .. Len(last'.ops) : last'.ops[k] \notin {"try", "analyze"}
         ]_vars

\* a guess with a repeated digit was refused in a game that had a scored
\* guess and hints already
C12_Witness ==
    /\ pc = "done"
    /\ output = <<"Digits must be unique">>
    /\ last.input = <<"1", "1", "2", "3">>
    /\ tries = 1
    /\ hint_table # UnknownTable

\* the line is a guess the loop of main takes: four numerals, all different
TakenGuess(input) == WellFormed(input) /\ Distinct(from_string(input))

\* C13: in the loop of main, try_calls counts the guesses of four different
\* numerals entered in the game that were not the secret (one more with every
\* such line, unchanged by every other line, 0 after a restart); the number
\* printed when the secret is guessed is tries + 1 = that count + 1; and the
\* winning guess is handed neither to try nor to analyze, so it leaves tries
\* and the hint table alone.
C13_WinReport ==
    /\ [] ( (pc = "exit" /\ Called("guess") /\ last.ret) =>
              /\ output = <<"You won in tries", tries + 1>>
              /\ tries = try_calls
              /\ ~ Called("try")
              /\ ~ Called("analyze")
              /\ hint_table = last.before )
    /\ [][ pc = "loop" =>
             try_calls' =
               IF last'.input \in { <<"r">>, <<"r", "e", "s", "t", "a", "r", "t">> }
               THEN 0
               ELSE IF /\ TakenGuess(last'.input)
                       /\ from_string(last'.input) # secret_number
                    THEN try_calls + 1
                    ELSE try_calls
         ]_vars

\* the secret was guessed after two scored guesses: 3 is printed
C13_Witness ==
    /\ pc = "exit"
    /\ Called("guess")
    /\ last.ret
    /\ tries = 2
    /\ output = <<"You won in tries", 3>>

RestartWords == { <<"r">>, <<"r", "e", "s", "t", "a", "r", "t">> }

\* C14: with the frames of main recorded: right after a restart command the
\* game in scope has tries 0, an all-Unknown hint table and a secret of four
\* different digits; a restart only puts the game it leaves, as it is, on top
\* of the waiting games, and a waiting game is never changed, only dropped
\* from the top once the main above it has ended; every line after the
\* restart is answered from the game in scope (guess compares with its
\* secret, stats prints its table); and once a main has ended (win or quit)
\* no engine method is called and nothing is printed any more: the waiting
\* frames only break.
C14_RestartFresh ==
    /\ [] ( (pc = "done" /\ last.input \in RestartWords) =>
              /\ tries = 0
              /\ hint_table = UnknownTable
              /\ SecretOk
              /\ try_calls = 0
              /\ analyze_calls = 0 )
    /\ [][ \/ frames' = frames
           \/ /\ pc = "loop"
              /\ last'.input \in RestartWords
              /\ frames' = Append(frames, Frame)
           \/ /\ pc = "exit"
              /\ frames # <<>>
              /\ frames' = SubSeq(frames, 1, Len(frames) - 1)
         ]_vars
    /\ [][ pc = "loop" =>
             /\ (\E k \in 1 .. Len(last'.ops) : last'.ops[k] = "guess") =>
                    (last'.ret <=> from_string(last'.input) = secret_number)
             /\ last'.input \in { <<"s">>, <<"s", "t", "a", "t", "s">> } =>
                    output' = <<"hints", print_hint(hint_table)>>
             /\ last'.input \notin RestartWords =>
                    (secret_number' = secret_number /\ last'.before \in {hint_table, UnknownTable})
         ]_vars
    /\ [][ pc = "exit" => (pc' = "exit" /\ last'.ops = <<>> /\ output' = <<>>) ]_vars

\* a game that had a scored guess and hints waits below a restarted game, and
\* the restarted game, with another secret and a scored guess of its own, has
\* been won
C14_Witness ==
    /\ Len(frames) = 1
    /\ frames[1].tries = 1
    /\ frames[1].hint_table # UnknownTable
    /\ frames[1].secret_number # secret_number
    /\ tries = 1
    /\ pc = "exit"
    /\ Called("guess")
    /\ last.ret

\* C15: when analyze is called with cows > 0 and bulls = 0, every cell
\* hint_table[guess[i]][i] that was Unknown or Maybe is NotHere when the call
\* returns and every such cell that was Here is still Here; when it is called
\* with bulls > 0 the last case does not run: no cell hint_table[guess[i]][i]
\* that was not NotHere is NotHere when the call returns.
C15_PureCows ==
    /\ (Called("analyze") /\ last.cows > 0 /\ last.bulls = 0) =>
         \A i \in Positions :
            /\ last.before[LastGuess[i]][i] \in {"Unknown", "Maybe"} =>
                   hint_table[LastGuess[i]][i] = "NotHere"
            /\ last.before[LastGuess[i]][i] = "Here" =>
                   hint_table[LastGuess[i]][i] = "Here"
    /\ (Called("analyze") /\ last.bulls > 0) =>
         \A i \in Positions :
            last.before[LastGuess[i]][i] # "NotHere" =>
                hint_table[LastGuess[i]][i] # "NotHere"

\* a call with only cows on a table whose cells of the guess held a Maybe, an
\* Unknown and a Here
C15_Witness ==
    /\ Called("analyze")
    /\ last.cows > 0
    /\ last.bulls = 0
    /\ \E i, j, k \in Positions :
         /\ last.before[LastGuess[i]][i] = "Maybe"
         /\ last.before[LastGuess[j]][j] = "Unknown"
         /\ last.before[LastGuess[k]][k] = "Here"
         /\ hint_table[LastGuess[i]][i] = "NotHere"
         /\ hint_table[LastGuess[k]][k] = "Here"

\* the table the third case of the last call of analyze found: what the first
\* two cases left
BeforeMaybe ==
    analyze_present(
        analyze_absent(last.before, LastGuess, last.cows, last.bulls),
        LastGuess, last.cows, last.bulls)

\* C16: when analyze is called with bulls > 0, every cell
\* hint_table[guess[i]][i] that was Unknown is Maybe when the call returns and
\* every such cell that was Maybe, Here or NotHere is as it was; when it is
\* called with bulls = 0 the third case changes nothing, and no cell that was
\* not Maybe is Maybe when the call returns.  On the game of secret 6437, try
\* of "6439" returns 0 cows and 3 bulls, and analyze of "6439" with that score
\* on the all-Unknown table leaves Maybe in hint_table[6][0], [4][1], [3][2]
\* and Here in no cell.
C16_PossibleBulls ==
    /\ (Called("analyze") /\ last.bulls > 0) =>
         \A i \in Positions :
            IF last.before[LastGuess[i]][i] = "Unknown"
            THEN hint_table[LastGuess[i]][i] = "Maybe"
            ELSE hint_table[LastGuess[i]][i] = last.before[LastGuess[i]][i]
    /\ (Called("analyze") /\ last.bulls = 0) =>
         /\ analyze_maybe(BeforeMaybe, LastGuess, last.cows, last.bulls) = BeforeMaybe
         /\ \A d \in Digits : \A p \in Positions :
                hint_table[d][p] = "Maybe" => last.before[d][p] = "Maybe"
    /\ ( /\ Called("try")
         /\ secret_number = <<6, 4, 3, 7>>
         /\ last.input = <<"6", "4", "3", "9">> ) =>
            (last.cows = 0 /\ last.bulls = 3)
    /\ ( /\ Called("analyze")
         /\ last.input = <<"6", "4", "3", "9">>
         /\ last.cows = 0
         /\ last.bulls = 3
         /\ last.before = UnknownTable ) =>
            /\ hint_table[6][1] = "Maybe"
            /\ hint_table[4][2] = "Maybe"
            /\ hint_table[3][3] = "Maybe"
            /\ \A d \in Digits : \A p \in Positions : hint_table[d][p] # "Here"

\* the call of the example: "6439" with 0 cows and 3 bulls on the all-Unknown
\* table of the game of secret 6437
C16_Witness ==
    /\ Called("analyze")
    /\ secret_number = <<6, 4, 3, 7>>
    /\ last.input = <<"6", "4", "3", "9">>
    /\ last.cows = 0
    /\ last.bulls = 3
    /\ last.before = UnknownTable
    /\ hint_table[6][1] = "Maybe"

\* C17: the hint table of a game on which neither try nor analyze was called
\* is all Unknown; only a call of analyze changes a cell of the hint table:
\* try, guess and check_unique_digits return with the table they found;
\* analyze changes neither the secret nor tries; and unless cows + bulls = 4,
\* analyze leaves every row of a digit that does not occur in the guess as it
\* was.
C17_Frames ==
    /\ [] ( (try_calls = 0 /\ analyze_calls = 0) => hint_table = UnknownTable )
    /\ [] ( (last.ops # <<>> /\ ~ Called("analyze")) => hint_table = last.before )
    /\ [][ hint_table' # hint_table =>
             (pc = "loop" /\ last'.ops = <<"analyze">>) ]_vars
    /\ [][ (pc = "loop" /\ last'.ops = <<"analyze">>) =>
             (secret_number' = secret_number /\ tries' = tries) ]_vars
    /\ [] ( (Called("analyze") /\ last.cows + last.bulls # 4) =>
              \A d \in Digits :
                 (\A i \in Positions : LastGuess[i] # d) =>
                     hint_table[d] = last.before[d] )

\* a call of analyze with cows + bulls = 3 changed the table of a game that
\* had been tried, and left the row of digit 9 all Unknown
C17_Witness ==
    /\ Called("analyze")
    /\ last.cows + last.bulls = 3
    /\ try_calls = 1
    /\ tries = 1
    /\ hint_table # last.before
    /\ hint_table[9] = UnknownTable[9]

====
